---------------------------- MODULE Spec2Model ----------------------------
(***************************************************************************)
(* Model of the synthetic CNC data generator,                              *)
(* "src/ML Models/data_generation.py".                                     *)
(*                                                                         *)
(* Fixed-point units (the script computes in floats):                      *)
(*   health      : 1.0   = HealthScale (100000) units                      *)
(*   severity,                                                             *)
(*   multipliers : 1.0   = Milli (1000) units                              *)
(*   sensors     : 1.0   = 100 units (two decimals)                        *)
(*   tool usage  : 1 min = 1 unit in the tool-usage loop                   *)
(*                                                                         *)
(* The table (the DataFrame df) is not kept whole.  The column is_anomaly  *)
(* is kept whole, as the set of flagged ticks, because episode placement   *)
(* reads it.  Of the other columns the model keeps one observed row,       *)
(* probe, chosen when the health pass writes it (any row of a short table; *)
(* in a long table the rows ProbeEligible names), and follows it through   *)
(* the later passes; the tool-usage loop keeps the two rows written last.  *)
(* The script fixes n_samples = 2160 and anomaly_percentage = 0.15; the    *)
(* model takes both as the parameters the functions declare.               *)
(***************************************************************************)
EXTENDS Integers, Sequences, FiniteSets, TLC

VARIABLES
    pc,                 \* position in the script
    n_samples,          \* len(df)
    i,                  \* index of the running for-loop
    tool_usage,         \* generate_normal_data: the local counter
    tool_row,           \* data["tool_usage_min"] at the two ticks written last
    maintenance_points, \* generate_health_and_maintenance: the three checkpoints
    current_health,     \* generate_health_and_maintenance: the carried health
    probe,              \* the observed row of df (tick = -1: none observed)
    pre,                \* the observed row as introduce_anomalies received it
    anomaly_percentage, \* introduce_anomalies: the parameter, in percent
    remaining_hours,    \* introduce_anomalies: budget still to partition
    sequences,          \* introduce_anomalies: episode lengths still to place
    episodes,           \* history: <<start_pos, seq_length>> of placed episodes
    is_anomaly,         \* the ticks whose is_anomaly column is 1
    seq_length,         \* introduce_anomalies: length of the current episode
    anomaly_type,       \* introduce_anomalies: type of the current episode
    start_pos,          \* introduce_anomalies: candidate start of the episode
    runs                \* two runs of the script: generator states and draws

vars == <<pc, n_samples, i, tool_usage, tool_row, maintenance_points,
          current_health, probe, pre, anomaly_percentage, remaining_hours,
          sequences, episodes, is_anomaly, seq_length, anomaly_type,
          start_pos, runs>>

toolVars == <<tool_usage, tool_row>>
healthVars == <<maintenance_points, current_health>>
anomalyVars == <<anomaly_percentage, remaining_hours, sequences, episodes,
                 is_anomaly, seq_length, anomaly_type, start_pos>>

Min(a, b) == IF a < b THEN a ELSE b
Max(a, b) == IF a > b THEN a ELSE b

---------------------------------------------------------------------------
(* Units *)

Milli == 10 * 100
HealthScale == 100 * Milli

---------------------------------------------------------------------------
(* Bounds of the model *)

\* n_samples of the tool-usage runs: enough ticks to pass the wear ceiling.
ToolTicks == 204
\* n_samples of the long health runs: past the third checkpoint and the
\* decay through every branch of the days-to-maintenance step function.
HealthTicks == 5300
\* In a long table only every ProbeStride-th row and the rows around a
\* checkpoint are eligible as the observed row.
ProbeStride == 250
\* n_samples of the whole-pipeline runs (every row eligible as observed
\* row): an episode of up to 8 ticks has a start position, one of 12 has none.
PipeTicks == 104
\* n_samples of the placement runs: episodes of 6 ticks and of 1 tick fit
\* together, two of 6 ticks do not.
PlaceTicks == 151
\* n_samples of the placement runs with the forced budget of 12: one
\* episode of 12 ticks has a single start position.
ForcedTicks == 108
\* n_samples too short for any start position (randint's range is empty).
ShortTicks == 100

---------------------------------------------------------------------------
(* The table's rows *)

\* The columns generate_normal_data writes apart from timestamp and
\* total_machine_hours: two sample rows of its draws (sensors in hundredths).
BaselineRows ==
    { [vibration_rms |-> 80, motor_temp_C |-> 6500, spindle_current_A |-> 1500,
       rpm |-> 300000, tool_usage_min |-> 123400, coolant_temp_C |-> 3000,
       cutting_force_N |-> 20000, power_consumption_W |-> 500000,
       acoustic_level_dB |-> 7500, machine_hours_today |-> 900],
      [vibration_rms |-> 95, motor_temp_C |-> 6130, spindle_current_A |-> 1321,
       rpm |-> 281000, tool_usage_min |-> 401500, coolant_temp_C |-> 3210,
       cutting_force_N |-> 21550, power_consumption_W |-> 461000,
       acoustic_level_dB |-> 7120, machine_hours_today |-> 1500] }

\* total_machine_hours of row t: 5000 plus one per tick up to and including t.
TotalMachineHours(t) == 5000 + (t + 1)

\* Row t as generate_health_and_maintenance first sees it: the baseline
\* columns, and the five columns it adds, zeroed.
NewRow(t, base) ==
    base @@ [timestamp |-> t,
             total_machine_hours |-> TotalMachineHours(t),
             machine_health_score |-> 0,
             days_to_maintenance |-> 0,
             is_anomaly |-> 0,
             anomaly_type |-> "normal",
             anomaly_severity |-> 0]

\* df.columns when introduce_anomalies runs
Columns ==
    {"timestamp", "vibration_rms", "motor_temp_C", "spindle_current_A", "rpm",
     "tool_usage_min", "coolant_temp_C", "cutting_force_N",
     "power_consumption_W", "acoustic_level_dB", "machine_hours_today",
     "total_machine_hours", "machine_health_score", "days_to_maintenance",
     "is_anomaly", "anomaly_type", "anomaly_severity"}

NoRow == NewRow(-1, CHOOSE b \in BaselineRows : b.vibration_rms = 80)

\* No row observed yet.  raw is the value of current_health the health pass
\* wrote for the row (before noise); checkpoint tells whether the row's tick
\* is one of maintenance_points.
NoProbe == [tick |-> -1, raw |-> 0, checkpoint |-> FALSE, row |-> NoRow]

ToolIdle ==
    /\ tool_usage = 0
    /\ tool_row = [prev |-> 0, cur |-> 0, written |-> 0]

HealthIdle ==
    /\ maintenance_points = <<>>
    /\ current_health = 0

ProbeIdle ==
    /\ probe = NoProbe
    /\ pre = NoRow

AnomalyIdle ==
    /\ remaining_hours = 0
    /\ sequences = <<>>
    /\ episodes = <<>>
    /\ is_anomaly = {}
    /\ seq_length = 0
    /\ anomaly_type = "normal"
    /\ start_pos = 0

---------------------------------------------------------------------------
(* generate_normal_data: the tool-usage loop *)

\* random.uniform(10, 20), in minutes
ToolIncrements == {10, 15, 20}

WearCeiling == 4000

\* The counter left by the mutated loop body: it never resets.
NextToolUsageNoReset(idx, usage, inc) ==
    IF idx > 0 THEN usage + inc ELSE usage

\* One pass of the loop body: the value of tool_usage written to row idx.
NextToolUsage(idx, usage, inc) ==
    IF idx > 0
    THEN IF usage > WearCeiling THEN 0 ELSE usage + inc
    ELSE usage

InitTool ==
    /\ pc = "tool_loop"
    /\ n_samples = ToolTicks
    /\ i = 0
    /\ ToolIdle
    /\ HealthIdle
    /\ ProbeIdle
    /\ anomaly_percentage = 0
    /\ AnomalyIdle
    /\ runs = <<>>

ToolTick ==
    /\ pc = "tool_loop"
    /\ i < n_samples
    /\ \E inc \in ToolIncrements :
          LET u == NextToolUsage(i, tool_usage, inc) IN
          /\ tool_usage' = u
          /\ tool_row' = [prev |-> tool_row.cur, cur |-> u, written |-> i + 1]
    /\ i' = i + 1
    /\ UNCHANGED <<pc, n_samples, healthVars, probe, pre, anomalyVars, runs>>

ToolDone ==
    /\ pc = "tool_loop"
    /\ i = n_samples
    /\ pc' = "tool_done"
    /\ UNCHANGED <<n_samples, i, toolVars, healthVars, probe, pre,
                   anomalyVars, runs>>

NextTool == ToolTick \/ ToolDone

SpecTool == InitTool /\ [][NextTool]_vars

---------------------------------------------------------------------------
(* generate_health_and_maintenance *)

\* health_decay_per_hour = 0.02, in health units
health_decay_per_hour == 2000

\* max(20, ...): the floor of the decaying health, in whole points
HealthFloor == 20

\* (day offset, hour) of a checkpoint: random.randint(-5, 5) and
\* random.randint(0, 23), two of their draws
MaintDraws == {<<-5, 0>>, <<5, 23>>}

\* day * 24 + hour for the k-th checkpoint
MaintenancePoint(k, draw) == (k * 30 + draw[1]) * 24 + draw[2]

\* np.random.normal(0, 1), in health units: draws of -3, 0 and 3
HealthNoise == {-3 * HealthScale, 0, 3 * HealthScale}

\* health_decay_per_hour * usage_factor for row t, where
\* usage_factor = 1.0 + (total_machine_hours[t] - total_machine_hours[t-1]) / 1000
Decay(t) ==
    (health_decay_per_hour
       * (1000 + (TotalMachineHours(t) - TotalMachineHours(t - 1)))) \div 1000

\* current_health as row t records it
DecayedHealth(t, health) ==
    IF t > 0 THEN Max(HealthFloor * HealthScale, health - Decay(t)) ELSE health

\* The step function with its first branch lost.
DaysToMaintFirstBranchLost(health) ==
    IF health > 60 * HealthScale THEN 20
    ELSE IF health > 40 * HealthScale THEN 10
    ELSE Max(0, health \div (10 * HealthScale))

\* days_to_maint of the if/elif chain
DaysToMaint(health) ==
    IF health > 80 * HealthScale THEN 30
    ELSE IF health > 60 * HealthScale THEN 20
    ELSE IF health > 40 * HealthScale THEN 10
    ELSE Max(0, health \div (10 * HealthScale))

IsMaintenancePoint(t) ==
    \E k \in DOMAIN maintenance_points : maintenance_points[k] = t

\* The clip left out.
ClipScoreMissing(score) == score

\* Series.clip(0, 100)
ClipScore(score) == Max(0, Min(100 * HealthScale, score))

\* Rows that may be taken as the observed row.
ProbeEligible(t) ==
    \/ n_samples < ProbeStride
    \/ t % ProbeStride = 0
    \/ \E d \in {-1, 0, 1} : IsMaintenancePoint(t + d)

\* Lines 105-118: the new columns, current_health and the checkpoints.
HealthStart ==
    /\ pc = "health_start"
    /\ \E d1 \in MaintDraws, d2 \in MaintDraws, d3 \in MaintDraws :
          maintenance_points' = << MaintenancePoint(1, d1),
                                   MaintenancePoint(2, d2),
                                   MaintenancePoint(3, d3) >>
    /\ current_health' = 100 * HealthScale
    /\ i' = 0
    /\ pc' = "health_loop"
    /\ UNCHANGED <<n_samples, toolVars, probe, pre, anomalyVars, runs>>

\* Lines 120-141: one pass of the loop body, for row i.
HealthTick ==
    /\ pc = "health_loop"
    /\ i < n_samples
    /\ LET health == DecayedHealth(i, current_health)
           days   == IF IsMaintenancePoint(i) THEN 30 ELSE DaysToMaint(health)
       IN  /\ current_health' =
                 IF IsMaintenancePoint(i) THEN 100 * HealthScale ELSE health
           /\ \/ UNCHANGED probe
              \/ /\ probe.tick = -1
                 /\ ProbeEligible(i)
                 /\ \E base \in BaselineRows :
                       probe' = [tick |-> i,
                                 raw |-> health,
                                 checkpoint |-> IsMaintenancePoint(i),
                                 row |-> [NewRow(i, base) EXCEPT
                                            !.machine_health_score = health,
                                            !.days_to_maintenance = days]]
    /\ i' = i + 1
    /\ UNCHANGED <<pc, n_samples, toolVars, maintenance_points, pre,
                   anomalyVars, runs>>

\* Lines 143-146: noise on every machine_health_score, then the clip, and
\* the return, which ends the life of the function's locals.
HealthNoiseAndClip ==
    /\ pc = "health_loop"
    /\ i = n_samples
    /\ IF probe.tick = -1
       THEN UNCHANGED probe
       ELSE \E noise \in HealthNoise :
               probe' = [probe EXCEPT !.row.machine_health_score =
                           ClipScore(probe.row.machine_health_score + noise)]
    /\ pc' = "health_done"
    /\ maintenance_points' = <<>>
    /\ current_health' = 0
    /\ UNCHANGED <<n_samples, i, toolVars, pre, anomalyVars, runs>>

NextHealth == HealthStart \/ HealthTick \/ HealthNoiseAndClip

InitHealth ==
    /\ pc = "health_start"
    /\ n_samples = HealthTicks
    /\ i = 0
    /\ ToolIdle
    /\ HealthIdle
    /\ ProbeIdle
    /\ anomaly_percentage = 0
    /\ AnomalyIdle
    /\ runs = <<>>

SpecHealth == InitHealth /\ [][NextHealth]_vars

---------------------------------------------------------------------------
(* introduce_anomalies *)

\* The catalog: multipliers, severity_impact and progression_rate in
\* thousandths.
anomaly_types ==
    [tool_wear |->
        [vibration_rms |-> 1500, cutting_force_N |-> 1300,
         acoustic_level_dB |-> 1200, tool_usage_min |-> 1000,
         severity_impact |-> 700, progression_rate |-> 1200],
     tool_break |->
        [vibration_rms |-> 2500, cutting_force_N |-> 700,
         acoustic_level_dB |-> 1500, spindle_current_A |-> 1300,
         severity_impact |-> 900, progression_rate |-> 1800],
     motor_overheating |->
        [motor_temp_C |-> 1400, power_consumption_W |-> 1200,
         spindle_current_A |-> 1150,
         severity_impact |-> 800, progression_rate |-> 1000],
     coolant_failure |->
        [coolant_temp_C |-> 1500, motor_temp_C |-> 1200,
         severity_impact |-> 850, progression_rate |-> 1500],
     power_supply_issue |->
        [power_consumption_W |-> 1300, spindle_current_A |-> 850,
         rpm |-> 900,
         severity_impact |-> 750, progression_rate |-> 800]]

\* The two keys of a catalog entry that are not metrics.
MetaKeys == {"severity_impact", "progression_rate"}

\* The 48-tick margin of the start range and of the window test.
Buffer == 48

\* random.randint(6, 48)
MinEpisode == 6
MaxEpisode == 48

\* The forced budget, and the forced single episode.
MinAnomalyHours == 12

\* anomaly_percentage, in percent, of the whole-pipeline runs: 0.08
PipePercentages == {8}

\* (len(df), anomaly_percentage in percent) of the placement runs
PlaceInputs == {<<ShortTicks, 0>>, <<ForcedTicks, 0>>, <<PlaceTicks, 5>>}

\* np.random.normal(0, 0.05), in thousandths: draws of -0.15, 0 and 0.15
SeverityNoise == {-150, 0, 150}

\* int(total_hours * anomaly_percentage), 12 when that is 0
TotalAnomalyHours(total_hours, percent) ==
    LET hours == (total_hours * percent) \div 100
    IN  IF hours = 0 THEN MinAnomalyHours ELSE hours

\* The episode length with the truncation to the budget left out.
EpisodeLengthUntruncated(draw, remaining) == draw

\* min(random.randint(6, 48), remaining_hours)
EpisodeLength(draw, remaining) == Min(draw, remaining)

\* The orders random.shuffle can leave a list in.
Shuffles(s) ==
    LET n == Len(s)
        bijections == {p \in [1..n -> 1..n] : \A a, b \in 1..n : a # b => p[a] # p[b]}
    IN  {[k \in 1..n |-> s[p[k]]] : p \in bijections}

\* The bounds of random.randint(48, len(df) - seq_length - 48)
StartLow == Buffer
StartHigh(len) == n_samples - len - Buffer

\* The window test with its right margin left out.
WindowHasAnomalyNoRightMargin(start, len) ==
    \E t \in Max(0, start - Buffer) .. (Min(n_samples, start + len) - 1) :
        t \in is_anomaly

\* any(df.iloc[max(0, start-48) : min(len(df), start+seq_length+48)]['is_anomaly'] > 0)
WindowHasAnomaly(start, len) ==
    \E t \in Max(0, start - Buffer) .. (Min(n_samples, start + len + Buffer) - 1) :
        t \in is_anomaly

\* The severity without its lower clamp.
SeverityNoLowerClamp(offset, len, rate, noise) ==
    Min(Milli, (offset * rate) \div len + noise)

\* max(0.1, min(1.0, (i / seq_length) * progression_rate + noise))
Severity(offset, len, rate, noise) ==
    Max(100, Min(Milli, (offset * rate) \div len + noise))

\* The metrics of "for metric, multiplier in anomaly_config.items()" that pass
\* "metric in df.columns and metric not in [severity_impact, progression_rate]"
AffectedMetrics(config) ==
    {metric \in DOMAIN config : metric \in Columns /\ metric \notin MetaKeys}

\* effect = 1.0 + (multiplier - 1.0) * severity, in thousandths
Effect(multiplier, severity) ==
    Milli + ((multiplier - Milli) * severity) \div Milli

\* health_impact = -50 * severity * severity_impact, in health units
HealthImpact(severity, severity_impact) ==
    -((50 * severity * severity_impact) \div 10)

\* max(0, min(100, ...))
ClampHealth(score) == Max(0, Min(100 * HealthScale, score))

\* The row with the catalog entry of one type used for every episode.
AnomalousRowOneConfig(row, type, severity) ==
    LET config   == anomaly_types["motor_overheating"]
        affected == AffectedMetrics(config)
        perturbed ==
            [col \in DOMAIN row |->
                IF col \in affected
                THEN (row[col] * Effect(config[col], severity)) \div Milli
                ELSE row[col]]
    IN  [perturbed EXCEPT
            !.is_anomaly = 1,
            !.anomaly_type = type,
            !.anomaly_severity = severity,
            !.machine_health_score =
                ClampHealth(perturbed.machine_health_score
                              + HealthImpact(severity, config.severity_impact))]

\* Lines 185-195 on one row: the labels, the metrics, the health penalty.
AnomalousRow(row, type, severity) ==
    LET config   == anomaly_types[type]
        affected == AffectedMetrics(config)
        perturbed ==
            [col \in DOMAIN row |->
                IF col \in affected
                THEN (row[col] * Effect(config[col], severity)) \div Milli
                ELSE row[col]]
    IN  [perturbed EXCEPT
            !.is_anomaly = 1,
            !.anomaly_type = type,
            !.anomaly_severity = severity,
            !.machine_health_score =
                ClampHealth(perturbed.machine_health_score
                              + HealthImpact(severity, config.severity_impact))]

\* Lines 152-159: the budget.
AnomalyStart ==
    /\ pc = "health_done"
    /\ remaining_hours' = TotalAnomalyHours(n_samples, anomaly_percentage)
    /\ sequences' = <<>>
    /\ pre' = probe.row
    /\ pc' = "partition"
    /\ UNCHANGED <<n_samples, i, toolVars, healthVars, probe,
                   anomaly_percentage, episodes, is_anomaly, seq_length,
                   anomaly_type, start_pos, runs>>

\* Lines 161-164: one pass of the while loop.
Partition ==
    /\ pc = "partition"
    /\ remaining_hours > 0
    /\ \E draw \in MinEpisode..MaxEpisode :
          LET len == EpisodeLength(draw, remaining_hours) IN
          /\ sequences' = Append(sequences, len)
          /\ remaining_hours' = remaining_hours - len
    /\ UNCHANGED <<pc, n_samples, i, toolVars, healthVars, probe, pre,
                   anomaly_percentage, episodes, is_anomaly, seq_length,
                   anomaly_type, start_pos, runs>>

\* Lines 166-169: the forced episode and the shuffle.
Shuffle ==
    /\ pc = "partition"
    /\ remaining_hours <= 0
    /\ sequences' \in Shuffles(IF Len(sequences) = 0
                               THEN <<MinAnomalyHours>> ELSE sequences)
    /\ pc' = "next_episode"
    /\ UNCHANGED <<n_samples, i, toolVars, healthVars, probe, pre,
                   anomaly_percentage, remaining_hours, episodes, is_anomaly,
                   seq_length, anomaly_type, start_pos, runs>>

\* Lines 171-175: the next episode, its type and its first start position.
\* randint raises ValueError when its range is empty.
NextEpisode ==
    /\ pc = "next_episode"
    /\ sequences # <<>>
    /\ seq_length' = Head(sequences)
    /\ sequences' = Tail(sequences)
    /\ \E type \in DOMAIN anomaly_types : anomaly_type' = type
    /\ IF StartHigh(Head(sequences)) < StartLow
       THEN /\ pc' = "ValueError"
            /\ UNCHANGED start_pos
       ELSE /\ pc' = "search"
            /\ \E start \in StartLow .. StartHigh(Head(sequences)) :
                  start_pos' = start
    /\ UNCHANGED <<n_samples, i, toolVars, healthVars, probe, pre,
                   anomaly_percentage, remaining_hours, episodes, is_anomaly,
                   runs>>

\* Lines 176-177: one pass of the while loop.  The window at start_pos
\* holds an anomaly, so the start position is drawn again.
Redraw ==
    /\ pc = "search"
    /\ WindowHasAnomaly(start_pos, seq_length)
    /\ \E start \in StartLow .. StartHigh(seq_length) : start_pos' = start
    /\ UNCHANGED <<pc, n_samples, i, toolVars, healthVars, probe, pre,
                   anomaly_percentage, remaining_hours, sequences, episodes,
                   is_anomaly, seq_length, anomaly_type, runs>>

\* Lines 176-195: the window is clear; the for loop over the episode's ticks.
Inject ==
    /\ pc = "search"
    /\ ~WindowHasAnomaly(start_pos, seq_length)
    /\ is_anomaly' = is_anomaly \cup (start_pos .. (start_pos + seq_length - 1))
    /\ episodes' = Append(episodes, <<start_pos, seq_length>>)
    /\ IF probe.tick \in start_pos .. (start_pos + seq_length - 1)
       THEN \E noise \in SeverityNoise :
               probe' = [probe EXCEPT !.row =
                   AnomalousRow(probe.row, anomaly_type,
                       Severity(probe.tick - start_pos, seq_length,
                                anomaly_types[anomaly_type].progression_rate,
                                noise))]
       ELSE UNCHANGED probe
    /\ pc' = "next_episode"
    /\ UNCHANGED <<n_samples, i, toolVars, healthVars, pre,
                   anomaly_percentage, remaining_hours, sequences, seq_length,
                   anomaly_type, start_pos, runs>>

\* Line 197: every episode is placed.
AnomalyDone ==
    /\ pc = "next_episode"
    /\ sequences = <<>>
    /\ pc' = "done"
    /\ UNCHANGED <<n_samples, i, toolVars, healthVars, probe, pre,
                   anomalyVars, runs>>

NextAnomaly ==
    \/ AnomalyStart
    \/ Partition
    \/ Shuffle
    \/ NextEpisode
    \/ Redraw
    \/ Inject
    \/ AnomalyDone

\* The script from generate_health_and_maintenance to introduce_anomalies.
InitPipe ==
    /\ pc = "health_start"
    /\ n_samples = PipeTicks
    /\ i = 0
    /\ ToolIdle
    /\ HealthIdle
    /\ ProbeIdle
    /\ anomaly_percentage \in PipePercentages
    /\ AnomalyIdle
    /\ runs = <<>>

Next == NextHealth \/ NextAnomaly

Spec == InitPipe /\ [][Next]_vars

\* introduce_anomalies on a table of the placement sizes, no row observed.
InitPlace ==
    /\ pc = "health_done"
    /\ \E input \in PlaceInputs :
          /\ n_samples = input[1]
          /\ anomaly_percentage = input[2]
    /\ i = n_samples
    /\ ToolIdle
    /\ HealthIdle
    /\ ProbeIdle
    /\ AnomalyIdle
    /\ runs = <<>>

SpecPlace == InitPlace /\ [][NextAnomaly]_vars

\* The start position that ends the search is drawn at some point if the
\* search keeps drawing and such a position exists.
RedrawToClearWindow ==
    /\ Redraw
    /\ ~WindowHasAnomaly(start_pos', seq_length)

SpecPlaceFair ==
    /\ InitPlace
    /\ [][NextAnomaly]_vars
    /\ WF_vars(NextAnomaly)
    /\ SF_vars(RedrawToClearWindow)

---------------------------------------------------------------------------
(* Two runs of the script and their random draws *)

\* np.random.seed(42)
np_seed == 42

\* The generators are abstracted to a state in 0..GenStates-1 that each draw
\* returns and advances.
GenStates == 5

GenSeeded(seed) == seed % GenStates
GenAdvance(state) == (state * 3 + 1) % GenStates

\* The draws of one run, in the order the script makes them (one of each
\* kind), with the generator each comes from: "np" is numpy.random, seeded
\* at line 8; "py" is the random module, which the script never seeds
\* and which Python seeds from the operating system when it is imported.
DrawPlan ==
    << [source |-> "np", draw |-> "sensor columns"],
       [source |-> "py", draw |-> "daily_hours"],
       [source |-> "py", draw |-> "tool_usage increment"],
       [source |-> "py", draw |-> "maintenance_points"],
       [source |-> "np", draw |-> "machine_health_score noise"],
       [source |-> "py", draw |-> "seq_length"],
       [source |-> "py", draw |-> "shuffle"],
       [source |-> "py", draw |-> "anomaly_type"],
       [source |-> "py", draw |-> "start_pos"],
       [source |-> "np", draw |-> "severity noise"] >>

RunIds == {1, 2}

InitRuns ==
    /\ pc = "runs"
    /\ n_samples = 0
    /\ i = 0
    /\ ToolIdle
    /\ HealthIdle
    /\ ProbeIdle
    /\ anomaly_percentage = 0
    /\ AnomalyIdle
    /\ \E e1 \in 0 .. GenStates - 1, e2 \in 0 .. GenStates - 1 :
          runs = << [np |-> GenSeeded(np_seed), py |-> e1, out |-> <<>>],
                    [np |-> GenSeeded(np_seed), py |-> e2, out |-> <<>>] >>

\* The next draw of run r; the value drawn goes into the run's output table.
RunDraw(r) ==
    /\ pc = "runs"
    /\ Len(runs[r].out) < Len(DrawPlan)
    /\ LET source == DrawPlan[Len(runs[r].out) + 1].source
           value  == runs[r][source]
       IN  runs' = [runs EXCEPT
                      ![r] = [@ EXCEPT
                                ![source] = GenAdvance(value),
                                !.out = Append(@, value)]]
    /\ UNCHANGED <<pc, n_samples, i, toolVars, healthVars, probe, pre,
                   anomalyVars>>

NextRuns == \E r \in RunIds : RunDraw(r)

SpecRuns == InitRuns /\ [][NextRuns]_vars

---------------------------------------------------------------------------
(* The claims *)

Observed == probe.tick # -1

\* The positions of the script from the entry of introduce_anomalies on.
InAnomalyStage ==
    pc \in {"partition", "next_episode", "search", "done", "ValueError"}

EpisodeTicks(e) == e[1] .. (e[1] + e[2] - 1)

Distance(s, t) == IF s > t THEN s - t ELSE t - s

\* C1: after introduce_anomalies returns, no two episodes share a tick and
\* any two ticks of different episodes are more than 48 ticks apart.
C1_EpisodesApart ==
    pc = "done" =>
        \A a, b \in DOMAIN episodes :
            a # b =>
                \A s \in EpisodeTicks(episodes[a]), t \in EpisodeTicks(episodes[b]) :
                    s # t /\ Distance(s, t) > 48

\* introduce_anomalies returned after placing two episodes.
C1_Witness ==
    /\ pc = "done"
    /\ Len(episodes) >= 2
    /\ is_anomaly = UNION {EpisodeTicks(episodes[a]) : a \in DOMAIN episodes}

\* C2: the placement of every episode ends: the run returns or aborts with
\* an error; it does not draw start positions forever.
C2_PlacementTerminates ==
    <>(pc \in {"done", "ValueError", "PlacementError"})

\* C3 as claimed: when introduce_anomalies completes, at least 12 ticks are
\* flagged, and at least round(anomaly_percentage * n_samples) within
\* rounding (one tick).
C3_AtLeastTwelveFlagged ==
    pc = "done" =>
        /\ Cardinality(is_anomaly) >= 12
        /\ Cardinality(is_anomaly) + 1 >=
               (n_samples * anomaly_percentage + 50) \div 100

\* C3 amended: when introduce_anomalies completes, the number of flagged
\* ticks is int(anomaly_percentage * n_samples) when that is at least 1 and
\* 12 otherwise; so at least one tick is flagged, and at least
\* round(anomaly_percentage * n_samples) within rounding.
C3_FlaggedEqualsBudget ==
    pc = "done" =>
        LET hours == (n_samples * anomaly_percentage) \div 100
        IN  /\ Cardinality(is_anomaly) = (IF hours >= 1 THEN hours ELSE 12)
            /\ Cardinality(is_anomaly) >= 1
            /\ Cardinality(is_anomaly) + 1 >=
                   (n_samples * anomaly_percentage + 50) \div 100

\* introduce_anomalies completed with a budget below 12 ticks.
C3_Witness ==
    /\ pc = "done"
    /\ (n_samples * anomaly_percentage) \div 100 \in 1 .. 11
    /\ Cardinality(is_anomaly) < 12

\* C4 as claimed: every recorded tool_usage_min is at most 4000.
C4_RecordedAtMostCeiling ==
    tool_row.written >= 1 => tool_row.cur <= 4000

\* C4 amended: every recorded tool_usage_min is at most 4020 (the ceiling
\* plus one largest increment), and a recorded value above 4000 is followed
\* on the next tick by a recorded 0.
C4_RecordedAtMostCeilingPlusIncrement ==
    /\ tool_row.written >= 1 => tool_row.cur <= 4020
    /\ (tool_row.written >= 2 /\ tool_row.prev > 4000) => tool_row.cur = 0

\* A value above the ceiling was recorded and the next tick recorded the reset.
C4_Witness ==
    /\ tool_row.written >= 2
    /\ tool_row.prev > 4000
    /\ tool_row.cur = 0

\* C5: at a checkpoint tick the health pass records, for that same tick, a
\* machine_health_score (before noise) of 100.0 and days_to_maintenance 30.
C5_CheckpointRowReset ==
    (Observed /\ probe.checkpoint /\ pc = "health_loop") =>
        /\ probe.row.machine_health_score = 100 * HealthScale
        /\ probe.row.days_to_maintenance = 30

\* C6: machine_health_score is within [0, 100] when the health stage has
\* finished and after a health penalty of introduce_anomalies.
C6_HealthScoreInRange ==
    (Observed /\ (pc = "health_done" \/ InAnomalyStage)) =>
        /\ probe.row.machine_health_score >= 0
        /\ probe.row.machine_health_score <= 100 * HealthScale

\* A row whose noisy score the clip cut to 100 received a health penalty.
C6_Witness ==
    /\ Observed
    /\ pc = "done"
    /\ pre.machine_health_score = 100 * HealthScale
    /\ probe.raw < 100 * HealthScale
    /\ probe.row.is_anomaly = 1
    /\ probe.row.machine_health_score < pre.machine_health_score

\* The step function as the claim states it.
C7_Step(score) ==
    IF score > 80 * HealthScale THEN 30
    ELSE IF score > 60 * HealthScale THEN 20
    ELSE IF score > 40 * HealthScale THEN 10
    ELSE Max(0, score \div (10 * HealthScale))

\* C7 as claimed: in the final table every row that is not a checkpoint
\* tick has days_to_maintenance equal to the step function of its
\* machine_health_score.
C7_DaysStepOfScore ==
    (Observed /\ pc = "done" /\ ~probe.checkpoint) =>
        probe.row.days_to_maintenance = C7_Step(probe.row.machine_health_score)

\* C7 amended: in the table the health stage returns and in the final
\* table, every row that is not a checkpoint tick has days_to_maintenance
\* equal to the step function of the health the pass computed for that tick
\* before the noise and before any anomaly penalty.
C7_DaysStepOfRawHealth ==
    (Observed /\ pc \in {"health_done", "done"} /\ ~probe.checkpoint) =>
        probe.row.days_to_maintenance = C7_Step(probe.raw)

\* A row of the final table whose days_to_maintenance is 30 although its
\* machine_health_score, after noise and penalty, is not above 80.
C7_Witness ==
    /\ Observed
    /\ pc = "done"
    /\ ~probe.checkpoint
    /\ probe.row.days_to_maintenance = 30
    /\ probe.row.machine_health_score <= 80 * HealthScale

\* C8: two runs of the script with the same seed and parameters produce
\* the same table, every draw being determined by the seed.
C8_RunsAgree ==
    (\A r \in DOMAIN runs : Len(runs[r].out) = Len(DrawPlan)) =>
        \A r1, r2 \in DOMAIN runs : runs[r1].out = runs[r2].out

\* C9: the three label fields of a row agree: is_anomaly is set iff
\* anomaly_type is a catalog type iff anomaly_severity is in [0.1, 1.0];
\* any other row is unflagged, "normal" and of severity 0.
C9_LabelsAgree ==
    (Observed /\ (pc = "health_done" \/ InAnomalyStage)) =>
        LET row == probe.row IN
        /\ row.is_anomaly \in {0, 1}
        /\ row.is_anomaly = 1 <=> probe.tick \in is_anomaly
        /\ row.is_anomaly = 1 <=>
               row.anomaly_type \in {"tool_wear", "tool_break",
                   "motor_overheating", "coolant_failure", "power_supply_issue"}
        /\ row.is_anomaly = 1 <=>
               (row.anomaly_severity >= 100 /\ row.anomaly_severity <= 1000)
        /\ row.is_anomaly = 0 =>
               row.anomaly_type = "normal" /\ row.anomaly_severity = 0

\* The first row of a placed episode, labelled at the lower clamp.
C9_Witness ==
    /\ Observed
    /\ pc = "done"
    /\ probe.row.is_anomaly = 1
    /\ \E a \in DOMAIN episodes : episodes[a][1] = probe.tick
    /\ probe.row.anomaly_severity = 100

\* The fields introduce_anomalies may change on a tick of an episode of the
\* given type.
C10_MayChange(type) ==
    {"is_anomaly", "anomaly_type", "anomaly_severity", "machine_health_score"}
        \cup (DOMAIN anomaly_types[type] \ MetaKeys)

\* C10: a row outside every episode is as introduce_anomalies received it;
\* on a row of an episode only the labels, machine_health_score and the
\* fields of the type's multiplier table differ from what it received.
C10_OnlyEpisodeFieldsChange ==
    (Observed /\ InAnomalyStage) =>
        IF probe.tick \in is_anomaly
        THEN \A col \in Columns \ C10_MayChange(probe.row.anomaly_type) :
                 probe.row[col] = pre[col]
        ELSE probe.row = pre

\* A row of a tool_break episode: vibration_rms changed, motor_temp_C kept.
C10_Witness ==
    /\ Observed
    /\ pc = "done"
    /\ probe.tick \in is_anomaly
    /\ probe.row.anomaly_type = "tool_break"
    /\ probe.row.vibration_rms # pre.vibration_rms
    /\ probe.row.motor_temp_C = pre.motor_temp_C
    /\ probe.row.days_to_maintenance = pre.days_to_maintenance

===========================================================================
